---- MODULE Spec2Model ----
(***************************************************************************)
(* A model of the IPv6 address library of src/utils.ts and of the form     *)
(* component of src/islands/IPv6Utils.tsx that calls it.                   *)
(*                                                                         *)
(* Text is a sequence of one-character strings.  A JavaScript value that   *)
(* may be null, a string, a number or a thrown exception is a record with  *)
(* a "tag" field, so that values of different kinds can be compared.       *)
(* A bigint is arbitrary-precision two's complement: [neg, bits], where    *)
(* bits is the set of positions holding 1 when neg is FALSE and the set of *)
(* positions holding 0 when neg is TRUE (all other positions, up to        *)
(* infinity, hold the opposite bit).                                       *)
(***************************************************************************)
EXTENDS Integers, Sequences, FiniteSets

VARIABLES phase, fn, address, cidrRange, prefixLength, value, ret,
          signals, fetching

\* One call of a library function: its arguments and its result.
libVars == <<phase, fn, address, cidrRange, prefixLength, value, ret>>

\* The form component: its signals, and whether handleUseMyIPv6 awaits its
\* fetch.
formVars == <<signals, fetching>>

vars == <<phase, fn, address, cidrRange, prefixLength, value, ret, signals, fetching>>

(***************************************************************************)
(* JavaScript values                                                       *)
(***************************************************************************)
Null == [tag |-> "null"]

Undefined == [tag |-> "undefined"]

Str(s) == [tag |-> "string", text |-> s]

Num(n) == [tag |-> "int", v |-> n]

NaN == [tag |-> "NaN", v |-> 0]

\* A number that is not an integer: v + 1/2.
Frac(n) == [tag |-> "frac", v |-> n]

\* An exception propagating out of a call.
RangeError == [tag |-> "RangeError"]

IsThrow(x) == x.tag = "RangeError"

\* JavaScript's !x for the values that are null, undefined or a string.
Falsy(x) == x.tag \in {"null", "undefined"} \/ (x.tag = "string" /\ x.text = <<>>)

(***************************************************************************)
(* String primitives                                                       *)
(***************************************************************************)
\* The characters of a string literal, as text.
Text(s) == [i \in 1..Len(s) |-> SubSeq(s, i, i)]

WhiteSpace == {" ", "\t", "\n", "\r"}

HexLower == <<"0", "1", "2", "3", "4", "5", "6", "7", "8", "9",
              "a", "b", "c", "d", "e", "f">>

HexUpper == <<"0", "1", "2", "3", "4", "5", "6", "7", "8", "9",
              "A", "B", "C", "D", "E", "F">>

HexChars == {HexLower[i] : i \in 1..16} \cup {HexUpper[i] : i \in 1..16}

\* The value of a digit character in the given radix, -1 when it is none.
DigitValue(c, radix) ==
  IF \E i \in 1..radix : HexLower[i] = c \/ HexUpper[i] = c
  THEN (CHOOSE i \in 1..radix : HexLower[i] = c \/ HexUpper[i] = c) - 1
  ELSE -1

RECURSIVE SplitFrom(_, _, _, _)
SplitFrom(s, sep, i, cur) ==
  IF i > Len(s) THEN <<cur>>
  ELSE IF i + Len(sep) - 1 <= Len(s) /\ SubSeq(s, i, i + Len(sep) - 1) = sep
       THEN <<cur>> \o SplitFrom(s, sep, i + Len(sep), <<>>)
       ELSE SplitFrom(s, sep, i + 1, Append(cur, s[i]))

\* String.prototype.split with a non-empty separator: the pieces between the
\* non-overlapping occurrences of sep, scanned left to right.
split(s, sep) == SplitFrom(s, sep, 1, <<>>)

RECURSIVE join(_, _)
join(list, sep) ==
  IF list = <<>> THEN <<>>
  ELSE IF Len(list) = 1 THEN list[1]
  ELSE list[1] \o sep \o join(Tail(list), sep)

RECURSIVE trimStart(_)
trimStart(s) ==
  IF s # <<>> /\ s[1] \in WhiteSpace THEN trimStart(Tail(s)) ELSE s

RECURSIVE trimEnd(_)
trimEnd(s) ==
  IF s # <<>> /\ s[Len(s)] \in WhiteSpace
  THEN trimEnd(SubSeq(s, 1, Len(s) - 1)) ELSE s

trim(s) == trimEnd(trimStart(s))

RECURSIVE padStart(_, _, _)
padStart(s, n, c) == IF Len(s) >= n THEN s ELSE padStart(<<c>> \o s, n, c)

\* toLowerCase on the characters a group can hold once it passed the pattern.
LowerChar(c) ==
  IF \E i \in 11..16 : HexUpper[i] = c
  THEN HexLower[CHOOSE i \in 11..16 : HexUpper[i] = c]
  ELSE c

toLowerCase(s) == [i \in 1..Len(s) |-> LowerChar(s[i])]

\* /^[0-9a-fA-F]{0,4}$/.test(group)
GroupPattern(group) ==
  Len(group) <= 4 /\ \A i \in 1..Len(group) : group[i] \in HexChars

\* g.replace(/^0+/, "")
RECURSIVE StripLeadingZeros(_)
StripLeadingZeros(g) ==
  IF g # <<>> /\ g[1] = "0" THEN StripLeadingZeros(Tail(g)) ELSE g

\* Array.prototype.slice(from, to) on 0-based indexes, to exclusive.
slice(list, from, to) == SubSeq(list, from + 1, to)

(***************************************************************************)
(* expandIPv6                                                              *)
(***************************************************************************)
ExpandGroup(group) ==
  IF ~GroupPattern(group) THEN Null
  ELSE Str(toLowerCase(padStart(group, 4, "0")))

ExpandGroups(groups) ==
  IF Len(groups) # 8 THEN Null
  ELSE LET expanded == [i \in 1..8 |-> ExpandGroup(groups[i])]
       IN IF \E i \in 1..8 : expanded[i] = Null THEN Null
          ELSE Str(join([i \in 1..8 |-> expanded[i].text], <<":">>))

expandIPv6(addressArg) ==
  LET addr == trim(addressArg)
      parts == split(addr, <<":", ":">>)
  IN IF Len(parts) > 2 THEN Null
     ELSE IF Len(parts) = 2
          THEN LET left == IF parts[1] # <<>> THEN split(parts[1], <<":">>) ELSE <<>>
                   right == IF parts[2] # <<>> THEN split(parts[2], <<":">>) ELSE <<>>
                   missing == 8 - Len(left) - Len(right)
               IN IF missing < 0 THEN Null
                  ELSE ExpandGroups(left \o [i \in 1..missing |-> <<"0">>] \o right)
          ELSE ExpandGroups(split(addr, <<":">>))

(***************************************************************************)
(* compressIPv6                                                            *)
(***************************************************************************)
\* simplify without the fallback to "0" for a group of zeros.
simplifyWithoutFallback(g) == StripLeadingZeros(g)

\* g.replace(/^0+/, "") || "0"
simplify(g) == IF StripLeadingZeros(g) = <<>> THEN <<"0">> ELSE StripLeadingZeros(g)

\* One iteration of the scan in which a later run of equal length replaces
\* the longest run found so far.
ScanStepLatestWins(st, isZero, i) ==
  IF isZero
  THEN IF st.currentStart = -1
       THEN [st EXCEPT !.currentStart = i, !.currentLen = 1]
       ELSE [st EXCEPT !.currentLen = st.currentLen + 1]
  ELSE [longestStart |-> IF st.currentLen >= st.longestLen
                         THEN st.currentStart ELSE st.longestStart,
        longestLen |-> IF st.currentLen >= st.longestLen
                       THEN st.currentLen ELSE st.longestLen,
        currentStart |-> -1,
        currentLen |-> 0]

\* One iteration of the scan at 0-based index i.
ScanStep(st, isZero, i) ==
  IF isZero
  THEN IF st.currentStart = -1
       THEN [st EXCEPT !.currentStart = i, !.currentLen = 1]
       ELSE [st EXCEPT !.currentLen = st.currentLen + 1]
  ELSE [longestStart |-> IF st.currentLen > st.longestLen
                         THEN st.currentStart ELSE st.longestStart,
        longestLen |-> IF st.currentLen > st.longestLen
                       THEN st.currentLen ELSE st.longestLen,
        currentStart |-> -1,
        currentLen |-> 0]

RECURSIVE ScanLoop(_, _, _)
ScanLoop(st, simplified, i) ==
  IF i >= Len(simplified) THEN st
  ELSE ScanLoop(ScanStep(st, simplified[i + 1] = <<"0">>, i), simplified, i + 1)

\* The scan's result after the loop and the check that follows it.
LongestRun(simplified) ==
  LET st == ScanLoop([longestStart |-> -1, longestLen |-> 0,
                      currentStart |-> -1, currentLen |-> 0], simplified, 0)
  IN IF st.currentLen > st.longestLen
     THEN [start |-> st.currentStart, len |-> st.currentLen]
     ELSE [start |-> st.longestStart, len |-> st.longestLen]

compressIPv6(fullAddress) ==
  LET groups == split(fullAddress, <<":">>)
      simplified == [i \in 1..Len(groups) |-> simplify(groups[i])]
      run == LongestRun(simplified)
  IN IF run.len > 1
     THEN LET before == slice(simplified, 0, run.start)
              after == slice(simplified, run.start + run.len, Len(simplified))
          IN IF before = <<>> /\ after = <<>> THEN <<":", ":">>
             ELSE IF before = <<>> THEN <<":", ":">> \o join(after, <<":">>)
             ELSE IF after = <<>> THEN join(before, <<":">>) \o <<":", ":">>
             ELSE join(before, <<":">>) \o <<":", ":">> \o join(after, <<":">>)
     ELSE join(simplified, <<":">>)

(***************************************************************************)
(* Numbers and bigints                                                     *)
(***************************************************************************)
Pow2(n) == 2 ^ n

\* The positions of the 1 bits of a natural number below 2^31.
BitsOfNat(n) == {i \in 0..30 : (n \div Pow2(i)) % 2 = 1}

RECURSIVE SumPow2(_)
SumPow2(S) ==
  IF S = {} THEN 0
  ELSE LET i == CHOOSE x \in S : TRUE IN Pow2(i) + SumPow2(S \ {i})

BigNat(n) == [tag |-> "bigint", neg |-> FALSE, bits |-> BitsOfNat(n)]

\* BigInt(number): a RangeError for NaN and for a number that is no integer.
\* A negative integer n is stored by the 0 bits of n, the 1 bits of -n - 1.
BigInt(num) ==
  IF num.tag # "int" THEN RangeError
  ELSE IF num.v >= 0 THEN BigNat(num.v)
  ELSE [tag |-> "bigint", neg |-> TRUE, bits |-> BitsOfNat(-num.v - 1)]

\* The number a bigint between -2^30 and 2^30 stands for.
BigToInt(x) == IF x.neg THEN -SumPow2(x.bits) - 1 ELSE SumPow2(x.bits)

\* x << k for an integer k; a negative k shifts right (arithmetic shift).
BigShiftLeft(x, k) ==
  IF k >= 0
  THEN [tag |-> "bigint", neg |-> x.neg,
        bits |-> {b + k : b \in x.bits} \cup (IF x.neg THEN 0..(k - 1) ELSE {})]
  ELSE [tag |-> "bigint", neg |-> x.neg, bits |-> {b + k : b \in {c \in x.bits : c >= -k}}]

\* x >> k
BigShiftRight(x, k) == BigShiftLeft(x, -k)

\* x & y
BigAnd(x, y) ==
  IF ~x.neg /\ ~y.neg THEN [tag |-> "bigint", neg |-> FALSE, bits |-> x.bits \cap y.bits]
  ELSE IF ~x.neg /\ y.neg THEN [tag |-> "bigint", neg |-> FALSE, bits |-> x.bits \ y.bits]
  ELSE IF x.neg /\ ~y.neg THEN [tag |-> "bigint", neg |-> FALSE, bits |-> y.bits \ x.bits]
  ELSE [tag |-> "bigint", neg |-> TRUE, bits |-> x.bits \cup y.bits]

\* x | y
BigOr(x, y) ==
  IF ~x.neg /\ ~y.neg THEN [tag |-> "bigint", neg |-> FALSE, bits |-> x.bits \cup y.bits]
  ELSE IF ~x.neg /\ y.neg THEN [tag |-> "bigint", neg |-> TRUE, bits |-> y.bits \ x.bits]
  ELSE IF x.neg /\ ~y.neg THEN [tag |-> "bigint", neg |-> TRUE, bits |-> x.bits \ y.bits]
  ELSE [tag |-> "bigint", neg |-> TRUE, bits |-> x.bits \cap y.bits]

\* The least natural number that is not in the finite set S.
RECURSIVE LeastAbsent(_, _)
LeastAbsent(S, i) == IF i \in S THEN LeastAbsent(S, i + 1) ELSE i

Least(S) == CHOOSE m \in S : \A x \in S : m <= x

\* x - 1n: borrow through the low 0 bits up to the lowest 1 bit.
BigDec(x) ==
  IF ~x.neg
  THEN IF x.bits = {} THEN [tag |-> "bigint", neg |-> TRUE, bits |-> {}]
       ELSE [tag |-> "bigint", neg |-> FALSE,
             bits |-> (x.bits \ {Least(x.bits)}) \cup 0..(Least(x.bits) - 1)]
  ELSE LET m == LeastAbsent(x.bits, 0)
       IN [tag |-> "bigint", neg |-> TRUE, bits |-> {b \in x.bits : b > m} \cup {m}]

\* x > y
BigGreater(x, y) ==
  IF x.neg # y.neg THEN y.neg
  ELSE LET hi(S, T) == \E i \in S \ T : \A j \in (S \cup T) : j > i => (j \in S <=> j \in T)
       IN IF x.neg THEN hi(y.bits, x.bits) ELSE hi(x.bits, y.bits)

\* The digits of a natural number in the given radix, most significant first.
RECURSIVE NatToString(_, _)
NatToString(n, radix) ==
  IF n < radix THEN <<HexLower[n + 1]>>
  ELSE Append(NatToString(n \div radix, radix), HexLower[(n % radix) + 1])

\* Number.prototype.toString and BigInt.prototype.toString for an integer.
IntToString(n, radix) ==
  IF n < 0 THEN <<"-">> \o NatToString(-n, radix) ELSE NatToString(n, radix)

\* The digits parseInt reads at the start of s, folded into a number.
RECURSIVE ParseDigits(_, _, _, _)
ParseDigits(s, i, radix, acc) ==
  IF i <= Len(s) /\ DigitValue(s[i], radix) >= 0
  THEN ParseDigits(s, i + 1, radix, acc * radix + DigitValue(s[i], radix))
  ELSE acc

\* parseInt(text, radix) for radix 10 or 16: leading white space and one sign
\* are skipped, radix 16 also skips a 0x prefix, then the longest run of
\* digits is read and anything after it is ignored; NaN when there is no digit.
parseInt(text, radix) ==
  LET s0 == trimStart(text)
      negative == s0 # <<>> /\ s0[1] = "-"
      s1 == IF s0 # <<>> /\ s0[1] \in {"+", "-"} THEN Tail(s0) ELSE s0
      s == IF radix = 16 /\ Len(s1) >= 2 /\ s1[1] = "0" /\ s1[2] \in {"x", "X"}
           THEN SubSeq(s1, 3, Len(s1)) ELSE s1
  IN IF s = <<>> \/ DigitValue(s[1], radix) < 0 THEN NaN
     ELSE Num((IF negative THEN -1 ELSE 1) * ParseDigits(s, 1, radix, 0))

(***************************************************************************)
(* ipv6ToBigInt, bigIntToIPv6                                              *)
(***************************************************************************)
RECURSIVE FoldGroups(_, _, _)
FoldGroups(groups, i, result) ==
  IF i > Len(groups) THEN result
  ELSE LET g == BigInt(parseInt(groups[i], 16))
       IN IF IsThrow(g) THEN RangeError
          ELSE FoldGroups(groups, i + 1, BigOr(BigShiftLeft(result, 16), g))

ipv6ToBigInt(fullAddress) == FoldGroups(split(fullAddress, <<":">>), 1, BigNat(0))

\* The loop of bigIntToIPv6 with push in place of unshift: groups come out
\* least significant first.
RECURSIVE PushGroups(_, _, _)
PushGroups(val, i, groups) ==
  IF i >= 8 THEN groups
  ELSE PushGroups(
         BigShiftRight(val, 16), i + 1,
         Append(groups,
                padStart(IntToString(BigToInt(BigAnd(val, BigNat(65535))), 16), 4, "0")))

RECURSIVE UnshiftGroups(_, _, _)
UnshiftGroups(val, i, groups) ==
  IF i >= 8 THEN groups
  ELSE UnshiftGroups(
         BigShiftRight(val, 16), i + 1,
         <<padStart(IntToString(BigToInt(BigAnd(val, BigNat(65535))), 16), 4, "0")>>
           \o groups)

bigIntToIPv6(val) == join(UnshiftGroups(val, 0, <<>>), <<":">>)

(***************************************************************************)
(* getNetworkAddress, getFirstAddress, getLastAddress, getTotalAddresses   *)
(***************************************************************************)
\* getNetworkAddress on a 128-bit register whose shifts take the amount
\* modulo 128 and drop the bits shifted out.
getNetworkAddressWrappingShift(fullAddress, prefixLen) ==
  LET addressInt == ipv6ToBigInt(fullAddress)
  IN IF IsThrow(addressInt) \/ IsThrow(BigInt(prefixLen)) THEN RangeError
     ELSE LET one == BigShiftLeft(BigNat(1), prefixLen.v % 128)
              mask == BigAnd(BigShiftLeft(BigDec(one), (128 - prefixLen.v) % 128),
                             [tag |-> "bigint", neg |-> FALSE, bits |-> 0..127])
          IN Str(bigIntToIPv6(BigAnd(addressInt, mask)))

\* getNetworkAddress whose mask holds only the lowest bit of the network part.
getNetworkAddressLowestBitOnly(fullAddress, prefixLen) ==
  LET addressInt == ipv6ToBigInt(fullAddress)
  IN IF IsThrow(addressInt) \/ IsThrow(BigInt(prefixLen)) THEN RangeError
     ELSE LET mask == BigShiftLeft(BigNat(1), 128 - prefixLen.v)
          IN Str(bigIntToIPv6(BigAnd(addressInt, mask)))

getNetworkAddress(fullAddress, prefixLen) ==
  LET addressInt == ipv6ToBigInt(fullAddress)
  IN IF IsThrow(addressInt) \/ IsThrow(BigInt(prefixLen)) THEN RangeError
     ELSE LET mask == BigShiftLeft(BigDec(BigShiftLeft(BigNat(1), prefixLen.v)),
                                   128 - prefixLen.v)
              networkInt == BigAnd(addressInt, mask)
          IN Str(bigIntToIPv6(networkInt))

\* getFirstAddress that leaves the host bits of the address in place.
getFirstAddressKeepsHost(fullAddress, prefixLen) ==
  IF IsThrow(getNetworkAddress(fullAddress, prefixLen)) THEN RangeError
  ELSE Str(fullAddress)

getFirstAddress(fullAddress, prefixLen) == getNetworkAddress(fullAddress, prefixLen)

\* getLastAddress with a host mask one bit short.
getLastAddressShortMask(fullAddress, prefixLen) ==
  LET network == getNetworkAddress(fullAddress, prefixLen)
  IN IF IsThrow(network) THEN RangeError
     ELSE LET networkInt == ipv6ToBigInt(network.text)
              hostBits == 128 - prefixLen.v - 1
              lastInt == BigOr(networkInt, BigDec(BigShiftLeft(BigNat(1), hostBits)))
          IN Str(bigIntToIPv6(lastInt))

getLastAddress(fullAddress, prefixLen) ==
  LET network == getNetworkAddress(fullAddress, prefixLen)
  IN IF IsThrow(network) THEN RangeError
     ELSE LET networkInt == ipv6ToBigInt(network.text)
              hostBits == 128 - prefixLen.v
              lastInt == BigOr(networkInt, BigDec(BigShiftLeft(BigNat(1), hostBits)))
          IN Str(bigIntToIPv6(lastInt))

\* getTotalAddresses with the limit a digit short.
getTotalAddressesLowLimit(prefixLen) ==
  IF IsThrow(BigInt(prefixLen)) THEN RangeError
  ELSE LET hostBits == 128 - prefixLen.v
           total == BigShiftLeft(BigNat(1), hostBits)
       IN IF BigGreater(total, BigNat(100000))
          THEN Str(<<"2", "^">> \o IntToString(hostBits, 10))
          ELSE Str(IntToString(BigToInt(total), 10))

getTotalAddresses(prefixLen) ==
  IF IsThrow(BigInt(prefixLen)) THEN RangeError
  ELSE LET hostBits == 128 - prefixLen.v
           total == BigShiftLeft(BigNat(1), hostBits)
       IN IF BigGreater(total, BigNat(1000000))
          THEN Str(<<"2", "^">> \o IntToString(hostBits, 10))
          ELSE Str(IntToString(BigToInt(total), 10))

(***************************************************************************)
(* isInCIDRRange, parseIPv6, parseIPv6CIDR                                 *)
(***************************************************************************)
\* The comparison with the prefix left out: the addresses themselves.
SameNetworkIgnoringPrefix(expandedAddress, expandedRange, prefixLen) ==
  expandedAddress = expandedRange

\* addressNetwork === rangeNetwork
SameNetwork(expandedAddress, expandedRange, prefixLen) ==
  getNetworkAddress(expandedAddress, prefixLen)
    = getNetworkAddress(expandedRange, prefixLen)

\* The two expansion checks in the other order.
CheckExpansionsRangeFirst(expandedAddress, expandedRange, prefixLen) ==
  IF Falsy(expandedRange)
  THEN [inRange |-> FALSE, error |-> "Invalid IPv6 range address"]
  ELSE IF Falsy(expandedAddress)
  THEN [inRange |-> FALSE, error |-> "Invalid IPv6 address"]
  ELSE [inRange |-> SameNetwork(expandedAddress.text, expandedRange.text, prefixLen)]

\* What isInCIDRRange does once the prefix length is accepted.
CheckExpansions(expandedAddress, expandedRange, prefixLen) ==
  IF Falsy(expandedAddress)
  THEN [inRange |-> FALSE, error |-> "Invalid IPv6 address"]
  ELSE IF Falsy(expandedRange)
  THEN [inRange |-> FALSE, error |-> "Invalid IPv6 range address"]
  ELSE [inRange |-> SameNetwork(expandedAddress.text, expandedRange.text, prefixLen)]

isInCIDRRange(addressArg, cidrRangeArg) ==
  LET pieces == split(cidrRangeArg, <<"/">>)
      rangeAddress == pieces[1]
      prefixStr == IF Len(pieces) >= 2 THEN Str(pieces[2]) ELSE Undefined
  IN IF Falsy(prefixStr)
     THEN [inRange |-> FALSE,
           error |-> "Invalid CIDR notation. Use format: address/prefix"]
     ELSE LET prefixLen == parseInt(prefixStr.text, 10)
          IN IF prefixLen.tag = "NaN" \/ prefixLen.v < 0 \/ prefixLen.v > 128
             THEN [inRange |-> FALSE,
                   error |-> "Prefix length must be between 0 and 128"]
             ELSE CheckExpansions(expandIPv6(addressArg), expandIPv6(rangeAddress),
                                  prefixLen)

parseIPv6(addressArg) ==
  LET expanded == expandIPv6(addressArg)
  IN IF Falsy(expanded) THEN Null
     ELSE [tag |-> "IPv6Details",
           fullAddress |-> expanded.text,
           compressedAddress |-> compressIPv6(expanded.text)]

parseIPv6CIDR(addressArg, prefixLen) ==
  LET expanded == expandIPv6(addressArg)
  IN IF Falsy(expanded) THEN Null
     ELSE LET networkAddress == getNetworkAddress(expanded.text, prefixLen)
          IN IF IsThrow(networkAddress) THEN RangeError
             ELSE [tag |-> "IPv6Details",
                   fullAddress |-> expanded.text,
                   compressedAddress |-> compressIPv6(expanded.text),
                   networkAddress |-> compressIPv6(networkAddress.text),
                   prefixLength |-> prefixLen,
                   firstAddress |->
                     compressIPv6(getFirstAddress(expanded.text, prefixLen).text),
                   lastAddress |->
                     compressIPv6(getLastAddress(expanded.text, prefixLen).text),
                   totalAddresses |-> getTotalAddresses(prefixLen).text]

(***************************************************************************)
(* Inputs                                                                  *)
(***************************************************************************)
\* How many of HextetSamples the addresses are built from.
NumHextets == 3

\* How many of CidrHextetSamples the CIDR arithmetic's addresses are built from.
NumCidrHextets == 2

\* How many of RangeHextetSamples the range check's addresses are built from.
NumRangeHextets == 2

\* The longest free text over TextAlphabet handed to expandIPv6.
MaxTextLen == 6

\* How far beyond 0..128 the prefix lengths handed to the functions reach.
PrefixSlack == 2

HextetSamples == <<Text("0000"), Text("ffff"), Text("0db8"), Text("8001"), Text("00a0")>>

Hextets == {HextetSamples[i] : i \in 1..NumHextets}

CidrHextetSamples == <<Text("ffff"), Text("0db8"), Text("0000"), Text("8001")>>

CidrHextets == {CidrHextetSamples[i] : i \in 1..NumCidrHextets}

RangeHextetSamples == <<Text("0000"), Text("0001"), Text("8000"), Text("ffff")>>

RangeHextets == {RangeHextetSamples[i] : i \in 1..NumRangeHextets}

\* Every expanded address whose groups are drawn from H.
AddressesOver(H) == {join(g, <<":">>) : g \in [1..8 -> H]}

\* The expanded addresses that hold one hextet in the first k groups and
\* another (or the same) in the rest.
StepAddresses(H) ==
  {join([i \in 1..8 |-> IF i <= k THEN h[1] ELSE h[2]], <<":">>) :
     k \in 0..7, h \in H \X H}

FullAddresses == AddressesOver(Hextets)

SampleAddresses == StepAddresses(Hextets)

CidrAddresses == StepAddresses(CidrHextets)

TextAlphabet == {":", "A", "g", " "}

ShortTexts == UNION {[1..n -> TextAlphabet] : n \in 0..MaxTextLen}

\* Texts expandIPv6 and the parse functions are called with: free text, full
\* forms, compressed forms, and forms with upper case and surrounding space.
AddressTexts ==
  ShortTexts \cup SampleAddresses \cup {compressIPv6(a) : a \in SampleAddresses}
    \cup {Text("2001:db8::1"), Text("2001:db8:::1"), Text("2001:DB8::1"),
          Text("::AAAAA"), Text("1:2:3:4:5:6:7"), Text("1:2:3:4:5:6:7:8:9"),
          Text(":1:2:3:4:5:6:7"), Text("1:2:3:4:5:6:7:"), Text("1::2::3")}

\* Texts that are no address.
InvalidTexts == {Text(""), Text("g"), Text("1::2::3")}

RangeTexts ==
  {compressIPv6(a) : a \in StepAddresses(RangeHextets)} \cup InvalidTexts

TargetTexts ==
  {join([i \in 1..8 |-> h], <<":">>) : h \in RangeHextets}
    \cup {Text("::"), Text(" 1::A ")}
    \cup InvalidTexts

\* Expanded range addresses below, at the two ends of, and above 0:0:0:1::/64.
BorderRanges ==
  {Text("0000:0000:0000:0000:ffff:ffff:ffff:ffff"),
   Text("0000:0000:0000:0001:0000:0000:0000:0000"),
   Text("0000:0000:0000:0001:ffff:ffff:ffff:ffff"),
   Text("0000:0000:0000:0002:0000:0000:0000:0000")}

\* Target addresses at the low end and in the middle of 0:0:0:1::/64, one
\* with the top bit set, and one in compressed form.
BorderTargets ==
  {Text("0000:0000:0000:0001:0000:0000:0000:0000"),
   Text("0000:0000:0000:0001:8000:0000:0000:0000"),
   Text("8000:0000:0000:0000:0000:0000:0000:0000"),
   Text("::1")}

\* CIDR ranges over BorderRanges with every prefix length from 0 to 128.
BorderCidrTexts ==
  {r \o <<"/">> \o IntToString(p, 10) : r \in BorderRanges, p \in 0..128}

\* The numbers handed over as a prefix length.
PrefixNumbers ==
  {Num(p) : p \in (0 - PrefixSlack)..(128 + PrefixSlack)} \cup {NaN, Frac(64)}

\* The texts after the slash of a CIDR range.
PrefixTexts ==
  {IntToString(p, 10) : p \in (0 - PrefixSlack)..(128 + PrefixSlack)}
    \cup {Text(""), Text("x"), Text("64x"), Text(" 64"), Text("+64"), Text("64.5"),
          Text("1e3"), Text("064"), Text("64/32"), Text("/64")}

CidrTexts ==
  RangeTexts \cup {r \o <<"/">> \o p : r \in RangeTexts, p \in PrefixTexts}

\* How many of the options of IPv6Prefixes the prefix select offers, besides
\* the option "64" the component starts with.
NumPrefixOptions == 2

\* The values of the options of the prefix select.
IPv6Prefixes ==
  <<Text("128"), Text("127"), Text("126"), Text("120"), Text("112"), Text("64"),
    Text("56"), Text("48"), Text("32")>>

PrefixOptions == {IPv6Prefixes[i] : i \in 1..NumPrefixOptions} \cup {Text("64")}

\* Texts typed into the address field and into the CIDR range field.
TypedAddresses == {Text(""), Text(" "), Text("::1"), Text("g")}

TypedCidrRanges == {Text(""), Text("::/64"), Text("::/x")}

\* The address in a successful response of /api/my-ipv6.
FetchedAddresses == {Text("2001:db8::1")}

\* data.error of a response without an address: the endpoint's text, or none.
FetchedErrors == {Str(Text("No global IPv6 address found. Detected: none")), Undefined}

\* Bigints below 2^128: every run of consecutive 1 bits.
BigValues == {[tag |-> "bigint", neg |-> FALSE, bits |-> i..j] : i, j \in 0..127}

(***************************************************************************)
(* The state machine: one call of a library function at a time.  phase is  *)
(* "idle" between calls and "done" while a call's arguments and its result *)
(* are held.                                                               *)
(***************************************************************************)
Init ==
  /\ phase = "idle"
  /\ fn = "none"
  /\ address = <<>>
  /\ cidrRange = <<>>
  /\ prefixLength = Undefined
  /\ value = Undefined
  /\ ret = Undefined
  /\ signals = [ipv6Address |-> Text(""),
                prefixLength |-> Text("64"),
                cidrRange |-> Text(""),
                convertResult |-> Null,
                cidrResult |-> Null,
                convertError |-> Null,
                isLoadingMyIPv6 |-> FALSE]
  /\ fetching = FALSE

Return ==
  /\ phase = "done"
  /\ phase' = "idle"
  /\ fn' = "none"
  /\ address' = <<>>
  /\ cidrRange' = <<>>
  /\ prefixLength' = Undefined
  /\ value' = Undefined
  /\ ret' = Undefined
  /\ UNCHANGED formVars

CallExpandIPv6 ==
  /\ phase = "idle"
  /\ \E a \in AddressTexts :
       /\ address' = a
       /\ ret' = expandIPv6(a)
  /\ phase' = "done"
  /\ fn' = "expandIPv6"
  /\ UNCHANGED <<cidrRange, prefixLength, value, signals, fetching>>

CallCompressIPv6 ==
  /\ phase = "idle"
  /\ \E a \in FullAddresses :
       /\ address' = a
       /\ ret' = Str(compressIPv6(a))
  /\ phase' = "done"
  /\ fn' = "compressIPv6"
  /\ UNCHANGED <<cidrRange, prefixLength, value, signals, fetching>>

CallParseIPv6 ==
  /\ phase = "idle"
  /\ \E a \in TargetTexts \cup RangeTexts :
       /\ address' = a
       /\ ret' = parseIPv6(a)
  /\ phase' = "done"
  /\ fn' = "parseIPv6"
  /\ UNCHANGED <<cidrRange, prefixLength, value, signals, fetching>>

CallIpv6ToBigInt ==
  /\ phase = "idle"
  /\ \E a \in SampleAddresses :
       /\ address' = a
       /\ ret' = ipv6ToBigInt(a)
  /\ phase' = "done"
  /\ fn' = "ipv6ToBigInt"
  /\ UNCHANGED <<cidrRange, prefixLength, value, signals, fetching>>

CallBigIntToIPv6 ==
  /\ phase = "idle"
  /\ \E v \in BigValues :
       /\ value' = v
       /\ ret' = Str(bigIntToIPv6(v))
  /\ phase' = "done"
  /\ fn' = "bigIntToIPv6"
  /\ UNCHANGED <<address, cidrRange, prefixLength, signals, fetching>>

CallGetNetworkAddress ==
  /\ phase = "idle"
  /\ \E a \in CidrAddresses, p \in PrefixNumbers :
       /\ address' = a
       /\ prefixLength' = p
       /\ ret' = getNetworkAddress(a, p)
  /\ phase' = "done"
  /\ fn' = "getNetworkAddress"
  /\ UNCHANGED <<cidrRange, value, signals, fetching>>

CallGetFirstAddress ==
  /\ phase = "idle"
  /\ \E a \in CidrAddresses, p \in PrefixNumbers :
       /\ address' = a
       /\ prefixLength' = p
       /\ ret' = getFirstAddress(a, p)
  /\ phase' = "done"
  /\ fn' = "getFirstAddress"
  /\ UNCHANGED <<cidrRange, value, signals, fetching>>

CallGetLastAddress ==
  /\ phase = "idle"
  /\ \E a \in CidrAddresses, p \in PrefixNumbers :
       /\ address' = a
       /\ prefixLength' = p
       /\ ret' = getLastAddress(a, p)
  /\ phase' = "done"
  /\ fn' = "getLastAddress"
  /\ UNCHANGED <<cidrRange, value, signals, fetching>>

CallGetTotalAddresses ==
  /\ phase = "idle"
  /\ \E p \in PrefixNumbers :
       /\ prefixLength' = p
       /\ ret' = getTotalAddresses(p)
  /\ phase' = "done"
  /\ fn' = "getTotalAddresses"
  /\ UNCHANGED <<address, cidrRange, value, signals, fetching>>

CallIsInCIDRRange ==
  /\ phase = "idle"
  /\ \E a \in TargetTexts, c \in CidrTexts :
       /\ address' = a
       /\ cidrRange' = c
       /\ ret' = isInCIDRRange(a, c)
  /\ phase' = "done"
  /\ fn' = "isInCIDRRange"
  /\ UNCHANGED <<prefixLength, value, signals, fetching>>

\* isInCIDRRange called with border addresses and a prefix length in range.
CallIsInCIDRRangeAtBorders ==
  /\ phase = "idle"
  /\ \E a \in BorderTargets, c \in BorderCidrTexts :
       /\ address' = a
       /\ cidrRange' = c
       /\ ret' = isInCIDRRange(a, c)
  /\ phase' = "done"
  /\ fn' = "isInCIDRRange"
  /\ UNCHANGED <<prefixLength, value, signals, fetching>>

CallParseIPv6CIDR ==
  /\ phase = "idle"
  /\ \E a \in TargetTexts \cup RangeTexts, p \in PrefixNumbers :
       /\ address' = a
       /\ prefixLength' = p
       /\ ret' = parseIPv6CIDR(a, p)
  /\ phase' = "done"
  /\ fn' = "parseIPv6CIDR"
  /\ UNCHANGED <<cidrRange, value, signals, fetching>>

(***************************************************************************)
(* The form component IPv6Utils: the three fields, the four buttons, and   *)
(* the completion of the fetch handleUseMyIPv6 awaits.  A disabled button  *)
(* does not call its handler.                                              *)
(***************************************************************************)
InputIPv6Address ==
  /\ \E t \in TypedAddresses : signals' = [signals EXCEPT !.ipv6Address = t]
  /\ UNCHANGED <<fetching, phase, fn, address, cidrRange, prefixLength, value, ret>>

ChangePrefixLength ==
  /\ \E t \in PrefixOptions : signals' = [signals EXCEPT !.prefixLength = t]
  /\ UNCHANGED <<fetching, phase, fn, address, cidrRange, prefixLength, value, ret>>

InputCidrRange ==
  /\ \E t \in TypedCidrRanges : signals' = [signals EXCEPT !.cidrRange = t]
  /\ UNCHANGED <<fetching, phase, fn, address, cidrRange, prefixLength, value, ret>>

\* The signals after handleConvert has run on the signals s.
ConvertOutcome(s) ==
  LET cleared == [s EXCEPT !.convertError = Null, !.convertResult = Null]
  IN IF trim(s.ipv6Address) = <<>>
     THEN [cleared EXCEPT !.convertError = Str(Text("Please enter an IPv6 address"))]
     ELSE LET result == parseIPv6CIDR(trim(s.ipv6Address), parseInt(s.prefixLength, 10))
          IN IF IsThrow(result) THEN cleared
             ELSE IF result = Null
             THEN [cleared EXCEPT !.convertError = Str(Text("Invalid IPv6 address format"))]
             ELSE [cleared EXCEPT !.convertResult = result]

handleConvert ==
  /\ trim(signals.ipv6Address) # <<>>
  /\ signals' = ConvertOutcome(signals)
  /\ UNCHANGED <<fetching, phase, fn, address, cidrRange, prefixLength, value, ret>>

\* The signals after handleCIDRCheck has run on the signals s.
CIDRCheckOutcome(s) ==
  IF trim(s.ipv6Address) = <<>>
  THEN [s EXCEPT !.cidrResult =
          [inRange |-> FALSE, error |-> "Please enter an IPv6 address"]]
  ELSE IF trim(s.cidrRange) = <<>>
  THEN [s EXCEPT !.cidrResult =
          [inRange |-> FALSE, error |-> "Please enter a CIDR range"]]
  ELSE [s EXCEPT !.cidrResult = isInCIDRRange(trim(s.ipv6Address), trim(s.cidrRange))]

handleCIDRCheck ==
  /\ trim(signals.ipv6Address) # <<>>
  /\ trim(signals.cidrRange) # <<>>
  /\ signals' = CIDRCheckOutcome(signals)
  /\ UNCHANGED <<fetching, phase, fn, address, cidrRange, prefixLength, value, ret>>

handleClear ==
  /\ signals' = [signals EXCEPT !.ipv6Address = Text(""),
                                !.prefixLength = Text("64"),
                                !.cidrRange = Text(""),
                                !.convertResult = Null,
                                !.cidrResult = Null,
                                !.convertError = Null]
  /\ UNCHANGED <<fetching, phase, fn, address, cidrRange, prefixLength, value, ret>>

\* handleUseMyIPv6 up to its await of the fetch.
handleUseMyIPv6 ==
  /\ ~signals.isLoadingMyIPv6
  /\ signals' = [signals EXCEPT !.isLoadingMyIPv6 = TRUE, !.convertError = Null]
  /\ fetching' = TRUE
  /\ UNCHANGED libVars

\* The response holds success and an address.
FetchSucceeds ==
  /\ fetching
  /\ \E a \in FetchedAddresses :
       signals' = [signals EXCEPT !.ipv6Address = a, !.isLoadingMyIPv6 = FALSE]
  /\ fetching' = FALSE
  /\ UNCHANGED libVars

\* The response holds no address: data.error || "No IPv6 address found".
FetchReportsNoAddress ==
  /\ fetching
  /\ \E e \in FetchedErrors :
       signals' = [signals EXCEPT
                     !.convertError =
                       IF Falsy(e) THEN Str(Text("No IPv6 address found")) ELSE e,
                     !.isLoadingMyIPv6 = FALSE]
  /\ fetching' = FALSE
  /\ UNCHANGED libVars

\* The fetch or the reading of its body throws.
FetchFails ==
  /\ fetching
  /\ signals' = [signals EXCEPT
                   !.convertError = Str(Text("Failed to fetch IPv6 address")),
                   !.isLoadingMyIPv6 = FALSE]
  /\ fetching' = FALSE
  /\ UNCHANGED libVars

NextForm ==
  \/ InputIPv6Address
  \/ ChangePrefixLength
  \/ InputCidrRange
  \/ handleConvert
  \/ handleCIDRCheck
  \/ handleClear
  \/ handleUseMyIPv6
  \/ FetchSucceeds
  \/ FetchReportsNoAddress
  \/ FetchFails

NextCodec == CallExpandIPv6 \/ CallCompressIPv6 \/ CallParseIPv6 \/ Return

NextBridge == CallIpv6ToBigInt \/ CallBigIntToIPv6 \/ Return

NextCidr ==
  \/ CallGetNetworkAddress
  \/ CallGetFirstAddress
  \/ CallGetLastAddress
  \/ CallGetTotalAddresses
  \/ Return

NextRange == CallIsInCIDRRange \/ Return

NextBorders == CallIsInCIDRRangeAtBorders \/ Return

NextFacade == CallParseIPv6CIDR \/ CallIsInCIDRRange \/ Return

Next ==
  NextCodec \/ NextBridge \/ NextCidr \/ NextRange \/ NextBorders \/ NextFacade
    \/ NextForm

\* The address codec: expandIPv6, compressIPv6, parseIPv6.
SpecCodec == Init /\ [][NextCodec]_vars

\* The integer bridge: ipv6ToBigInt, bigIntToIPv6.
SpecBridge == Init /\ [][NextBridge]_vars

\* CIDR arithmetic: network, first and last address, address count.
SpecCidr == Init /\ [][NextCidr]_vars

\* Range membership: isInCIDRRange.
SpecRange == Init /\ [][NextRange]_vars

\* Range membership at the borders of a network, every prefix length.
SpecBorders == Init /\ [][NextBorders]_vars

\* The two entry points the form calls: parseIPv6CIDR and isInCIDRRange.
SpecFacade == Init /\ [][NextFacade]_vars

\* The form component.
SpecForm == Init /\ [][NextForm]_vars

\* Every function of the library, and the form.
Spec == Init /\ [][Next]_vars

(***************************************************************************)
(* What the claims compare the results with: addresses as eight numbers,   *)
(* written out and masked group by group.                                  *)
(***************************************************************************)
HexCharOf(v) == SubSeq("0123456789abcdef", v + 1, v + 1)

HexValueOf(c) == CHOOSE v \in 0..15 : HexCharOf(v) = c

DecCharOf(d) == SubSeq("0123456789", d + 1, d + 1)

\* The decimal text of a natural number below 1000, without leading zeros.
Decimal(n) ==
  IF n < 10 THEN <<DecCharOf(n)>>
  ELSE IF n < 100 THEN <<DecCharOf(n \div 10), DecCharOf(n % 10)>>
  ELSE <<DecCharOf(n \div 100), DecCharOf((n \div 10) % 10), DecCharOf(n % 10)>>

Hex4(v) ==
  <<HexCharOf(v \div 4096), HexCharOf((v \div 256) % 16),
    HexCharOf((v \div 16) % 16), HexCharOf(v % 16)>>

\* The eight 16-bit numbers of an expanded address, first group first.
HextetsOf(full) ==
  [i \in 1..8 |->
     4096 * HexValueOf(full[5 * i - 4]) + 256 * HexValueOf(full[5 * i - 3])
       + 16 * HexValueOf(full[5 * i - 2]) + HexValueOf(full[5 * i - 1])]

FormatHextets(h) ==
  Hex4(h[1]) \o <<":">> \o Hex4(h[2]) \o <<":">> \o Hex4(h[3]) \o <<":">>
    \o Hex4(h[4]) \o <<":">> \o Hex4(h[5]) \o <<":">> \o Hex4(h[6]) \o <<":">>
    \o Hex4(h[7]) \o <<":">> \o Hex4(h[8])

\* How many of the top p bits of an address fall into group i.
KeptBits(p, i) ==
  IF p - 16 * (i - 1) < 0 THEN 0
  ELSE IF p - 16 * (i - 1) > 16 THEN 16 ELSE p - 16 * (i - 1)

\* The address h with its top p bits kept and the rest cleared, or set.
TopBitsKept(h, p) ==
  [i \in 1..8 |-> (h[i] \div 2 ^ (16 - KeptBits(p, i))) * 2 ^ (16 - KeptBits(p, i))]

LowBitsSet(h, p) ==
  LET kept == TopBitsKept(h, p)
  IN [i \in 1..8 |-> kept[i] + 2 ^ (16 - KeptBits(p, i)) - 1]

\* Two addresses agree on their top p bits.
AgreeOnTopBits(h1, h2, p) == TopBitsKept(h1, p) = TopBitsKept(h2, p)

IsPrefixInRange(num) == num.tag = "int" /\ num.v \in 0..128

Called(f) == phase = "done" /\ fn = f

\* The number of positions at which "::" starts in a text.
DoubleColonCount(t) ==
  Cardinality({i \in 1..(Len(t) - 1) : t[i] = ":" /\ t[i + 1] = ":"})

HasSlash(t) == \E i \in 1..Len(t) : t[i] = "/"

FirstSlash(t) == CHOOSE i \in 1..Len(t) : t[i] = "/" /\ \A j \in 1..(i - 1) : t[j] # "/"

BeforeSlash(t) == SubSeq(t, 1, FirstSlash(t) - 1)

AfterSlash(t) == SubSeq(t, FirstSlash(t) + 1, Len(t))

PrefixError == "Prefix length must be between 0 and 128"

NotationError == "Invalid CIDR notation. Use format: address/prefix"

AddressError == "Invalid IPv6 address"

RangeAddressError == "Invalid IPv6 range address"

(***************************************************************************)
(* Claims                                                                  *)
(***************************************************************************)

\* C1: expandIPv6 returns null for every input that holds more than one
\* occurrence of "::", three colons in a row included.
C1_MultipleDoubleColonIsNull ==
  (Called("expandIPv6") /\ DoubleColonCount(address) > 1) => ret = Null

\* C2: for every prefix length p in 0..128 and every expanded address a,
\* getNetworkAddress(a, p) is a with its top p bits kept and its low 128 - p
\* bits cleared; p = 0 gives the all-zero address and p = 128 gives a.
C2_NetworkAddressKeepsTopBits ==
  (Called("getNetworkAddress") /\ IsPrefixInRange(prefixLength)) =>
    /\ ret = Str(FormatHextets(TopBitsKept(HextetsOf(address), prefixLength.v)))
    /\ prefixLength.v = 0 => ret = Str(Text("0000:0000:0000:0000:0000:0000:0000:0000"))
    /\ prefixLength.v = 128 => ret = Str(address)

C2_Witness ==
  /\ Called("getNetworkAddress")
  /\ address = Text("ffff:ffff:ffff:ffff:ffff:ffff:ffff:ffff")
  /\ prefixLength = Num(21)
  /\ ret = Str(Text("ffff:f800:0000:0000:0000:0000:0000:0000"))

\* C3: when expandIPv6 accepts the address text and the range's address text
\* and the text after the slash is an integer p in 0..128, isInCIDRRange
\* returns no error, and inRange is TRUE exactly when the two addresses agree
\* on their top p bits.
C3_InRangeIffTopBitsAgree ==
  (/\ Called("isInCIDRRange")
   /\ HasSlash(cidrRange)
   /\ expandIPv6(address) # Null
   /\ expandIPv6(BeforeSlash(cidrRange)) # Null) =>
    \A p \in 0..128 :
      AfterSlash(cidrRange) = Decimal(p) =>
        ret = [inRange |->
                 AgreeOnTopBits(HextetsOf(expandIPv6(address).text),
                                HextetsOf(expandIPv6(BeforeSlash(cidrRange)).text), p)]

C3_Witness ==
  /\ Called("isInCIDRRange")
  /\ address = Text(" 1::A ")
  /\ cidrRange = Text("1::/124")
  /\ ret = [inRange |-> TRUE]

\* C4: when cidrRange holds a slash and the text after it is not an integer
\* in 0..128 (empty, not a number, a number followed by other characters,
\* negative, above 128), isInCIDRRange returns an error, the prefix-length
\* error, and never computes a membership result.  Stated by what every case
\* of the claim requires: the result carries an error.
\* Read generously: surrounding space, a plus sign and leading zeros still
\* make an integer.
RECURSIVE DigitsValue(_)
DigitsValue(u) ==
  IF u = <<>> THEN 0
  ELSE 10 * DigitsValue(SubSeq(u, 1, Len(u) - 1))
         + (CHOOSE d \in 0..9 : DecCharOf(d) = u[Len(u)])

IsIntegerInRange(t) ==
  LET u == IF trim(t) # <<>> /\ trim(t)[1] = "+" THEN Tail(trim(t)) ELSE trim(t)
  IN /\ u # <<>>
     /\ \A i \in 1..Len(u) : \E d \in 0..9 : DecCharOf(d) = u[i]
     /\ DigitsValue(u) \in 0..128

C4_BadPrefixComputesNoMembership ==
  (Called("isInCIDRRange") /\ HasSlash(cidrRange)
     /\ ~IsIntegerInRange(AfterSlash(cidrRange))) =>
    "error" \in DOMAIN ret

\* C5: for every expanded address a, expandIPv6(compressIPv6(a)) = a; and the
\* compressed form of whatever expandIPv6 accepts is canonical: expanding and
\* compressing it again returns the same text.
C5_ExpandInvertsCompress ==
  /\ Called("compressIPv6") => expandIPv6(ret.text) = Str(address)
  /\ (Called("expandIPv6") /\ ret # Null) =>
       /\ expandIPv6(compressIPv6(ret.text)) # Null
       /\ compressIPv6(expandIPv6(compressIPv6(ret.text)).text) = compressIPv6(ret.text)

C5_Witness ==
  /\ Called("compressIPv6")
  /\ address = Text("0000:ffff:0000:0000:0db8:0000:0000:0000")
  /\ ret = Str(Text("0:ffff:0:0:db8::"))

\* C6: for every expanded address a, bigIntToIPv6(ipv6ToBigInt(a)) = a, the
\* groups being folded most significant first; and for every integer v in
\* 0..2^128 - 1, ipv6ToBigInt(bigIntToIPv6(v)) = v.
BitsOfAddress(full) ==
  LET h == HextetsOf(full)
  IN {k \in 0..127 : (h[8 - (k \div 16)] \div 2 ^ (k % 16)) % 2 = 1}

C6_BigIntRoundTrip ==
  /\ Called("ipv6ToBigInt") =>
       /\ ret = [tag |-> "bigint", neg |-> FALSE, bits |-> BitsOfAddress(address)]
       /\ bigIntToIPv6(ret) = address
  /\ Called("bigIntToIPv6") => ipv6ToBigInt(ret.text) = value

C6_Witness ==
  /\ Called("bigIntToIPv6")
  /\ value = [tag |-> "bigint", neg |-> FALSE, bits |-> 12..35]
  /\ ret = Str(Text("0000:0000:0000:0000:0000:000f:ffff:f000"))

\* C7: parseIPv6CIDR and isInCIDRRange never throw: for every address text,
\* CIDR text and prefixLength argument, a prefix length out of range or not
\* an integer included, they return a result or an error value.
C7_EntryPointsNeverThrow ==
  (Called("parseIPv6CIDR") \/ Called("isInCIDRRange")) => ret # RangeError

\* C8: for every prefix length p in 0..128, getTotalAddresses(p) is the exact
\* decimal text of 2^(128 - p) when that is at most 1,000,000, which is
\* p >= 109, and the text "2^<128 - p>" when it is more, which is p <= 108.
PowersOfTwo ==
  <<"1", "2", "4", "8", "16", "32", "64", "128", "256", "512", "1024", "2048",
    "4096", "8192", "16384", "32768", "65536", "131072", "262144", "524288">>

C8_TotalAddressesText ==
  (Called("getTotalAddresses") /\ IsPrefixInRange(prefixLength)) =>
    LET hostBits == 128 - prefixLength.v
    IN /\ prefixLength.v >= 109 => ret = Str(Text(PowersOfTwo[hostBits + 1]))
       /\ prefixLength.v <= 108 => ret = Str(Text("2^") \o Decimal(hostBits))
       /\ prefixLength.v >= 109 <=> (hostBits <= 30 /\ 2 ^ hostBits <= 1000000)

C8_Witness ==
  /\ Called("getTotalAddresses")
  /\ prefixLength = Num(109)
  /\ ret = Str(Text("524288"))

\* C9: for every expanded address a and prefix length p in 0..128,
\* getLastAddress(a, p) is the network address with its low 128 - p bits set,
\* getFirstAddress(a, p) is getNetworkAddress(a, p), and last - first + 1 is
\* 2^(128 - p).
\* Naturals below 2^144 as nine 16-bit limbs, limb 0 the most significant.
LimbsOf(full) == [i \in 0..8 |-> IF i = 0 THEN 0 ELSE HextetsOf(full)[i]]

PowerOfTwoLimbs(e) == [i \in 0..8 |-> IF i = 8 - (e \div 16) THEN 2 ^ (e % 16) ELSE 0]

RECURSIVE CarryInto(_, _, _)
CarryInto(x, y, i) ==
  IF i = 8 THEN 0 ELSE (x[i + 1] + y[i + 1] + CarryInto(x, y, i + 1)) \div 65536

SumLimbs(x, y) == [i \in 0..8 |-> (x[i] + y[i] + CarryInto(x, y, i)) % 65536]

C9_FirstAndLastAddress ==
  /\ (Called("getLastAddress") /\ IsPrefixInRange(prefixLength)) =>
       /\ ret = Str(FormatHextets(LowBitsSet(HextetsOf(address), prefixLength.v)))
       /\ SumLimbs(LimbsOf(ret.text), PowerOfTwoLimbs(0))
            = SumLimbs(LimbsOf(getFirstAddress(address, prefixLength).text),
                       PowerOfTwoLimbs(128 - prefixLength.v))
  /\ (Called("getFirstAddress") /\ IsPrefixInRange(prefixLength)) =>
       /\ ret = getNetworkAddress(address, prefixLength)
       /\ ret = Str(FormatHextets(TopBitsKept(HextetsOf(address), prefixLength.v)))

C9_Witness ==
  /\ Called("getLastAddress")
  /\ address = Text("0db8:0db8:0db8:0db8:0db8:0db8:0db8:0db8")
  /\ prefixLength = Num(21)
  /\ ret = Str(Text("0db8:0fff:ffff:ffff:ffff:ffff:ffff:ffff"))

\* C10 as stated: isInCIDRRange reports the first failing check in the order
\* missing slash, prefix out of range, target address fails expansion, range
\* address fails expansion; an error always comes with inRange = FALSE.
PrefixOutOfRange(t) ==
  parseInt(t, 10).tag = "NaN" \/ parseInt(t, 10).v < 0 \/ parseInt(t, 10).v > 128

FirstFailingCheck(noPrefix, c) ==
  IF noPrefix THEN NotationError
  ELSE IF PrefixOutOfRange(AfterSlash(c)) THEN PrefixError
  ELSE IF expandIPv6(address) = Null THEN AddressError
  ELSE IF expandIPv6(BeforeSlash(c)) = Null THEN RangeAddressError
  ELSE "none"

ReportsCheck(e) ==
  IF e = "none" THEN DOMAIN ret = {"inRange"}
  ELSE ret = [inRange |-> FALSE, error |-> e]

NoPrefixPart(c) ==
  ~HasSlash(c) \/ AfterSlash(c) = <<>> \/ AfterSlash(c)[1] = "/"

ShortHex(v) ==
  IF v < 16 THEN <<HexCharOf(v)>>
  ELSE IF v < 256 THEN <<HexCharOf(v \div 16), HexCharOf(v % 16)>>
  ELSE IF v < 4096 THEN <<HexCharOf(v \div 256), HexCharOf((v \div 16) % 16), HexCharOf(v % 16)>>
  ELSE Hex4(v)

\* Groups s..(s + n - 1) of h are all zero (1-based s).
IsZeroRun(h, s, n) == n >= 1 /\ s + n - 1 <= 8 /\ \A i \in s..(s + n - 1) : h[i] = 0

\* The length of the longest run of zero groups of h, 0 without a zero group.
LongestZeroRunLen(h) ==
  CHOOSE n \in 0..8 :
    /\ n > 0 => \E s \in 1..8 : IsZeroRun(h, s, n)
    /\ \A m \in (n + 1)..8 : \A s \in 1..8 : ~IsZeroRun(h, s, m)

\* Groups from..to of h written without leading zeros and joined by ":".
RECURSIVE WriteGroups(_, _, _)
WriteGroups(h, from, to) ==
  IF from > to THEN <<>>
  ELSE IF from = to THEN ShortHex(h[from])
  ELSE ShortHex(h[from]) \o <<":">> \o WriteGroups(h, from + 1, to)

ShortestForm(h) ==
  LET n == LongestZeroRunLen(h)
  IN IF n >= 2
     THEN LET s == CHOOSE s \in 1..8 :
                     IsZeroRun(h, s, n) /\ \A t \in 1..(s - 1) : ~IsZeroRun(h, t, n)
          IN WriteGroups(h, 1, s - 1) \o <<":", ":">> \o WriteGroups(h, s + n, 8)
     ELSE WriteGroups(h, 1, 8)

C11_CompressElidesEarliestLongestRun ==
  Called("compressIPv6") =>
    /\ ret = Str(ShortestForm(HextetsOf(address)))
    /\ DoubleColonCount(ret.text) <= 1
    /\ LongestZeroRunLen(HextetsOf(address)) < 2 =>
         /\ DoubleColonCount(ret.text) = 0
         /\ \A i \in 1..8 :
              HextetsOf(address)[i] = 0 => split(ret.text, <<":">>)[i] = <<"0">>

C11_Witness ==
  /\ Called("compressIPv6")
  /\ address = Text("0db8:0000:0000:ffff:0000:0000:ffff:0000")
  /\ ret = Str(Text("db8::ffff:0:0:ffff:0"))

\* C12: expandIPv6 returns null for every input in which an empty group comes
\* from a single ":" rather than from the "::" elision: a leading single
\* colon, a trailing single colon, or a colon next to "::".
LeadingSingleColon(t) == Len(t) >= 1 /\ t[1] = ":" /\ ~(Len(t) >= 2 /\ t[2] = ":")

TrailingSingleColon(t) ==
  Len(t) >= 1 /\ t[Len(t)] = ":" /\ ~(Len(t) >= 2 /\ t[Len(t) - 1] = ":")

ColonNextToDoubleColon(t) ==
  \E i \in 1..(Len(t) - 2) : t[i] = ":" /\ t[i + 1] = ":" /\ t[i + 2] = ":"

EmptyGroupFromSingleColon(t) ==
  LeadingSingleColon(t) \/ TrailingSingleColon(t) \/ ColonNextToDoubleColon(t)

C12_EmptyGroupFromSingleColonIsNull ==
  (Called("expandIPv6") /\ EmptyGroupFromSingleColon(trim(address))) => ret = Null

\* C13: membership by equal network addresses is membership in the interval:
\* for accepted addresses x and r, expanded ones among them, and every prefix
\* length p in 0..128, isInCIDRRange(x, r/p).inRange is TRUE exactly when
\* ipv6ToBigInt(getFirstAddress(r, p)) <= ipv6ToBigInt(x)
\*   <= ipv6ToBigInt(getLastAddress(r, p)).
\* a <= b for two bigints that are not negative.
AtMost(a, b) ==
  \/ a.bits = b.bits
  \/ \E k \in b.bits \ a.bits : \A j \in a.bits \ b.bits : j < k

InInterval(x, r, p) ==
  /\ AtMost(ipv6ToBigInt(getFirstAddress(r, Num(p)).text), ipv6ToBigInt(x))
  /\ AtMost(ipv6ToBigInt(x), ipv6ToBigInt(getLastAddress(r, Num(p)).text))

C13_MaskMembershipIsIntervalMembership ==
  (/\ Called("isInCIDRRange")
   /\ HasSlash(cidrRange)
   /\ expandIPv6(address) # Null
   /\ expandIPv6(BeforeSlash(cidrRange)) # Null) =>
    \A p \in 0..128 :
      AfterSlash(cidrRange) = Decimal(p) =>
        /\ DOMAIN ret = {"inRange"}
        /\ ret.inRange <=> InInterval(expandIPv6(address).text,
                                      expandIPv6(BeforeSlash(cidrRange)).text, p)

\* An expanded address in the network but below the range's address.
C13_Witness ==
  /\ Called("isInCIDRRange")
  /\ address = Text("0000:0000:0000:0001:0000:0000:0000:0000")
  /\ cidrRange = Text("0000:0000:0000:0001:ffff:ffff:ffff:ffff/64")
  /\ ret = [inRange |-> TRUE]

\* C14: range membership is monotone in the prefix length: for valid
\* addresses x and r and 0 <= q <= p <= 128, when isInCIDRRange(x, r/p) is in
\* range so is isInCIDRRange(x, r/q); at p = 0 every valid address is in
\* range, and at p = 128 an address is in range only if it is r.
InRangeAt(x, r, q) == isInCIDRRange(x, r \o <<"/">> \o Decimal(q))

C14_MembershipMonotoneInPrefix ==
  (/\ Called("isInCIDRRange")
   /\ HasSlash(cidrRange)
   /\ expandIPv6(address) # Null
   /\ expandIPv6(BeforeSlash(cidrRange)) # Null) =>
    \A p \in 0..128 :
      AfterSlash(cidrRange) = Decimal(p) =>
        /\ DOMAIN ret = {"inRange"}
        /\ ret.inRange =>
             \A q \in 0..p : InRangeAt(address, BeforeSlash(cidrRange), q) = [inRange |-> TRUE]
        /\ p = 0 => ret.inRange
        /\ (p = 128 /\ ret.inRange) =>
             expandIPv6(address) = expandIPv6(BeforeSlash(cidrRange))

\* In range at 64 bits, and out of range at 65.
C14_Witness ==
  /\ Called("isInCIDRRange")
  /\ address = Text("::1")
  /\ cidrRange = Text("0000:0000:0000:0000:ffff:ffff:ffff:ffff/64")
  /\ ret = [inRange |-> TRUE]
  /\ InRangeAt(address, BeforeSlash(cidrRange), 65) = [inRange |-> FALSE]

\* C15: in every state of the form component reached by any interleaving of
\* handleConvert, handleCIDRCheck, handleClear and handleUseMyIPv6, whose
\* fetch may succeed, report no address, or fail, convertResult and
\* convertError are never both non-null.
C15_ResultAndErrorNeverTogether ==
  ~(signals.convertResult # Null /\ signals.convertError # Null)

====
